---- MODULE Spec2Model ----
(***************************************************************************)
(* The ingestion job engine of src/api/jobs.py: run_ingestion_job and the  *)
(* job/event store it writes, with the endpoints of src/api/main.py that   *)
(* create jobs and attach documents.  One ingestion job is modelled; an    *)
(* invocation of run_ingestion_job is a process whose steps are the        *)
(* database statements and remote calls of the function, one per action.   *)
(***************************************************************************)
EXTENDS Integers, Sequences, FiniteSets, TLC

\* ---------------------------------------------------------------- bounds
MaxDocs == 7
MaxCalls == 3
MaxDocTime == 2
ConcDocs == 1
ConcCalls == 2
CrashDocs == 2
CrashCalls == 2
PollDocs == 1
LiveDocs == 3
MemDocs == 2
MemCalls == 2
MaxUpdates == 2
MaxWait == 4
MaxEvery == 2
MaxTemplate == 2

\* ------------------------------------------------------------- constants
\* _set_job_status: the default of its progress parameter (None), as an integer
NoProgress == -1
\* run_ingestion_job: the default batch_size
DefaultBatch == 5

None == "None"
NoDoc == 0
\* the job of the model, and another job that writes to the same event table
ThisJob == "job"
OtherJob == "other job"
Procs == {1, 2}
FirstProc == CHOOSE p \in Procs : \A q \in Procs : p <= q
DocIds == 1 .. MaxDocs
DocTimes == 1 .. MaxDocTime
\* a budget that no run of MaxDocs documents exhausts
Ample == MaxDocs * MaxDocTime + 1
TimeBudgets == {0, 3, Ample}
BatchSizes == {0, 1, DefaultBatch}

VARIABLES
    job,            \* the ingestion_jobs row: status, progress, total, error
    fileStore,      \* whether the file_stores row of job.file_store_id exists
    membership,     \* file_store_documents rows of the job's store: <<added_at, document_id>>
    events,         \* ingestion_job_events rows of the job, in id order
    io,             \* remote calls made so far, per document
    faults,         \* the kinds of remote call that can raise
    docTime,        \* how long the remote processing of a document takes (the same for each)
    calls,          \* invocations of run_ingestion_job started so far
    lastParams,     \* <<time_budget_s, batch_size>> of the latest invocation started
    streak,         \* how many invocations in a row used lastParams
    pc,             \* per invocation: the statement it is about to execute
    jobRead,        \* per invocation: the local `job` (the row read at entry)
    time_budget_s,  \* per invocation: parameter
    batch_size,     \* per invocation: parameter
    progress,       \* per invocation: local
    total,          \* per invocation: local
    processed,      \* per invocation: local
    untilDeadline,  \* per invocation: deadline - time.time()
    docs,           \* per invocation: the batch fetched
    idx,            \* per invocation: position of `doc` in docs (1-based)
    exc,            \* per invocation: str(exc) of the exception caught, or None
    ret,            \* per invocation: the record returned, NoJob before it returns
    raised,         \* per invocation: the message of the exception raised to the caller, or None
    cursor,         \* the progress UI: the largest event id it has seen (its after_id)
    seen,           \* the progress UI: the event rows it has received, in order of arrival
    jobsTable,      \* _set_job_status on its own: the ingestion_jobs rows, the clock, the call
    op,             \* poll_operation on its own: its parameters, locals and outcome
    prompt          \* render_prompt on its own: its arguments and its result

shared == <<job, fileStore, membership, events, io, faults, docTime, calls, lastParams, streak>>
locals == <<pc, jobRead, time_budget_s, batch_size, progress, total, processed,
            untilDeadline, docs, idx, exc, ret>>
bench == <<jobsTable, op, prompt>>
aside == <<raised, cursor, seen, jobsTable, op, prompt>>
vars == <<job, fileStore, membership, events, io, faults, docTime, calls, lastParams, streak,
          pc, jobRead, time_budget_s, batch_size, progress, total, processed,
          untilDeadline, docs, idx, exc, ret, raised, cursor, seen,
          jobsTable, op, prompt>>

\* ------------------------------------------------------------ store layer
Min(a, b) == IF a <= b THEN a ELSE b

\* a row of ingestion_job_events written for the job
Event(message, level, doc, error, n) ==
    [job_id |-> ThisJob, message |-> message, level |-> level, doc |-> doc,
     error |-> error, processed |-> n]

\* _log_event: INSERT INTO ingestion_job_events; the id is the position in the log
LogEvent(log, message, level, doc, error, n) ==
    Append(log, Event(message, level, doc, error, n))

\* an update that sets every column, supplied or not
SetJobStatus_AllColumns(j, status, error, prog) ==
    [j EXCEPT !.status = status,
              !.error = error,
              !.progress = IF prog # NoProgress THEN prog ELSE 0]

\* _set_job_status: UPDATE ingestion_jobs SET status [, error] [, progress]
SetJobStatus(j, status, error, prog) ==
    [j EXCEPT !.status = status,
              !.error = IF error # None THEN error ELSE @,
              !.progress = IF prog # NoProgress THEN prog ELSE @]

\* the UPDATE of _set_job_status on the table: the row WHERE id = job_id gets
\* the columns of SetJobStatus and updated_at = now(); other rows are not matched
UpdateJobStatus(rows, now, job_id, status, error, prog) ==
    [k \in DOMAIN rows |->
        IF k = job_id
        THEN [SetJobStatus(rows[k], status, error, prog) EXCEPT !.updated_at = now]
        ELSE rows[k]]

\* ORDER BY id ASC
RECURSIVE Ascending(_)
Ascending(ids) ==
    IF ids = {} THEN <<>>
    ELSE LET least == CHOOSE i \in ids : \A j \in ids : i <= j
         IN  <<least>> \o Ascending(ids \ {least})

\* a cursor test that includes the row at after_id
GetEvents_Inclusive(log, job_id, after_id) ==
    LET ids == Ascending({i \in 1 .. Len(log) : log[i].job_id = job_id /\ i >= after_id})
    IN  [k \in 1 .. Len(ids) |->
            [id |-> ids[k], level |-> log[ids[k]].level, message |-> log[ids[k]].message,
             doc |-> log[ids[k]].doc, error |-> log[ids[k]].error,
             processed |-> log[ids[k]].processed]]

\* get_ingestion_job_events: SELECT id, ts, level, message, data
\* WHERE job_id = %s AND id > %s ORDER BY id ASC
GetEvents(log, job_id, after_id) ==
    LET ids == Ascending({i \in 1 .. Len(log) : log[i].job_id = job_id /\ i > after_id})
    IN  [k \in 1 .. Len(ids) |->
            [id |-> ids[k], level |-> log[ids[k]].level, message |-> log[ids[k]].message,
             doc |-> log[ids[k]].doc, error |-> log[ids[k]].error,
             processed |-> log[ids[k]].processed]]

\* ORDER BY d.id ASC alone
RowBefore_IdOnly(r, s) == r[2] < s[2]

\* ORDER BY fsd.added_at ASC, d.id ASC
RowBefore(r, s) == r[1] < s[1] \/ (r[1] = s[1] /\ r[2] < s[2])

RECURSIVE OrderedRows(_)
OrderedRows(rows) ==
    IF rows = {} THEN <<>>
    ELSE LET first == CHOOSE r \in rows : \A s \in rows \ {r} : RowBefore(r, s)
         IN  <<first>> \o OrderedRows(rows \ {first})

\* _fetch_documents_for_job: the ordered join, OFFSET offset LIMIT limit
FetchDocumentsForJob(rows, offset, limit) ==
    LET all == OrderedRows(rows)
        last == Min(Len(all), offset + limit)
    IN  [i \in 1 .. (IF last > offset THEN last - offset ELSE 0) |-> all[offset + i][2]]

\* SELECT COUNT(*) FROM file_store_documents WHERE file_store_id = ...
CountMembership(rows) == Cardinality(rows)

\* an entry that lets only queued jobs run
IsTerminal_NotQueued(status) == status # "queued"

\* a terminal test that forgets "failed"
IsTerminal_OnlySucceeded(status) == status = "succeeded"

\* line 70
IsTerminal(status) == status \in {"succeeded", "failed"}

\* the value of a `job` or of a result that has not been assigned
NoJob == [status |-> None, progress |-> 0, total |-> 0, error |-> None]

Kinds == {"download", "upload", "import", "poll"}
NoIo == [download |-> 0, upload |-> 0, import |-> 0, poll |-> 0]

\* ------------------------------------------------------------------ init
\* create_ingestion_job / attach_documents: a queued job whose total is the
\* membership count at creation
NewJob(rows) ==
    [status |-> "queued", progress |-> 0, total |-> CountMembership(rows), error |-> None]

\* memberships of n documents: added one by one in id order, or added two at
\* a time (equal added_at) with the larger ids first
Memberships(n) ==
    { {<<d, d>> : d \in 1 .. n},
      {<<(n - d) \div 2, d>> : d \in 1 .. n} }

\* no call of _set_job_status, poll_operation or render_prompt on its own yet
NoUpdate == [job_id |-> None, status |-> None, error |-> None, progress |-> NoProgress]
NoTable == [rows |-> <<>>, clock |-> 0, update |-> NoUpdate]
NoResponse == [code |-> 0, json |-> FALSE, done |-> FALSE, error |-> None]
NoOp == [pc |-> "idle", max_wait_s |-> 0, poll_every_s |-> 0, wait |-> 0, requests |-> 0,
         resp |-> NoResponse, last |-> NoResponse, out |-> NoResponse, raised |-> None]
NoPrompt == [template |-> <<>>, context |-> <<>>, out |-> <<>>, done |-> FALSE]

InitBench ==
    /\ jobsTable = NoTable
    /\ op = NoOp
    /\ prompt = NoPrompt

InitLocals ==
    /\ pc = [p \in Procs |-> "idle"]
    /\ jobRead = [p \in Procs |-> NoJob]
    /\ time_budget_s = [p \in Procs |-> 0]
    /\ batch_size = [p \in Procs |-> 0]
    /\ progress = [p \in Procs |-> 0]
    /\ total = [p \in Procs |-> 0]
    /\ processed = [p \in Procs |-> 0]
    /\ untilDeadline = [p \in Procs |-> 0]
    /\ docs = [p \in Procs |-> <<>>]
    /\ idx = [p \in Procs |-> 0]
    /\ exc = [p \in Procs |-> None]
    /\ ret = [p \in Procs |-> NoJob]
    /\ raised = [p \in Procs |-> None]
    /\ cursor = 0
    /\ seen = <<>>

InitShared(rows, canFail, times) ==
    /\ membership = rows
    /\ job = NewJob(rows)
    /\ fileStore \in BOOLEAN
    /\ events = <<>>
    /\ io = [d \in DocIds |-> NoIo]
    /\ faults = canFail
    /\ docTime \in times
    /\ calls = 0
    /\ lastParams = <<0, 0>>
    /\ streak = 0

Init ==
    /\ \E n \in 0 .. MaxDocs : \E rows \in Memberships(n) : InitShared(rows, Kinds, DocTimes)
    /\ InitLocals
    /\ InitBench

\* ------------------------------------------------- run_ingestion_job steps
Goto(p, label) == pc' = [pc EXCEPT ![p] = label]
At(p, label) == pc[p] = label
doc(p) == docs[p][idx[p]]
Bump(d, kind) == io' = [io EXCEPT ![d][kind] = @ + 1]

\* lines 65-71: entry; read the row; a terminal job is returned as read
Call(p, tb, bs) ==
    /\ At(p, "idle")
    /\ calls' = calls + 1
    /\ streak' = IF calls > 0 /\ lastParams = <<tb, bs>> THEN streak + 1 ELSE 1
    /\ lastParams' = <<tb, bs>>
    /\ jobRead' = [jobRead EXCEPT ![p] = job]
    /\ time_budget_s' = [time_budget_s EXCEPT ![p] = tb]
    /\ batch_size' = [batch_size EXCEPT ![p] = bs]
    /\ progress' = [progress EXCEPT ![p] = 0]
    /\ total' = [total EXCEPT ![p] = 0]
    /\ processed' = [processed EXCEPT ![p] = 0]
    /\ untilDeadline' = [untilDeadline EXCEPT ![p] = 0]
    /\ docs' = [docs EXCEPT ![p] = <<>>]
    /\ idx' = [idx EXCEPT ![p] = 0]
    /\ exc' = [exc EXCEPT ![p] = None]
    /\ IF IsTerminal(job.status)
       THEN /\ ret' = [ret EXCEPT ![p] = job]
            /\ UNCHANGED pc
       ELSE /\ ret' = [ret EXCEPT ![p] = NoJob]
            /\ Goto(p, "set_running")
    /\ raised' = [raised EXCEPT ![p] = None]
    /\ UNCHANGED <<job, fileStore, membership, events, io, faults, docTime, cursor, seen, bench>>

\* lines 66-68 for a job id that has no row: RuntimeError("Job not found")
\* goes to the caller, no record is returned and nothing is written
UnknownCall(p) ==
    /\ At(p, "idle")
    /\ calls' = calls + 1
    /\ raised' = [raised EXCEPT ![p] = "Job not found"]
    /\ ret' = [ret EXCEPT ![p] = NoJob]
    /\ UNCHANGED <<job, fileStore, membership, events, io, faults, docTime, lastParams, streak,
                   pc, jobRead, time_budget_s, batch_size, progress, total, processed,
                   untilDeadline, docs, idx, exc, cursor, seen, bench>>

\* the entry without its transition to running
SetRunning_Skipped(p) ==
    /\ At(p, "set_running")
    /\ Goto(p, "log_started")
    /\ UNCHANGED aside
    /\ UNCHANGED <<shared, jobRead, time_budget_s, batch_size, progress, total,
                   processed, untilDeadline, docs, idx, exc, ret>>

\* line 73
SetRunning(p) ==
    /\ At(p, "set_running")
    /\ job' = SetJobStatus(job, "running", None, NoProgress)
    /\ Goto(p, "log_started")
    /\ UNCHANGED aside
    /\ UNCHANGED <<fileStore, membership, events, io, faults, docTime, calls, lastParams, streak,
                   jobRead, time_budget_s, batch_size, progress, total, processed,
                   untilDeadline, docs, idx, exc, ret>>

\* line 74
LogStarted(p) ==
    /\ At(p, "log_started")
    /\ events' = LogEvent(events, "job_started", "info", NoDoc, None, NoProgress)
    /\ Goto(p, "fetch_store")
    /\ UNCHANGED aside
    /\ UNCHANGED <<job, fileStore, membership, io, faults, docTime, calls, lastParams, streak,
                   jobRead, time_budget_s, batch_size, progress, total, processed,
                   untilDeadline, docs, idx, exc, ret>>

\* an entry that goes on without looking at the file store row
FetchStore_IgnoresMissing(p) ==
    /\ At(p, "fetch_store")
    /\ Goto(p, "log_store_ready")
    /\ UNCHANGED aside
    /\ UNCHANGED <<shared, jobRead, time_budget_s, batch_size, progress, total,
                   processed, untilDeadline, docs, idx, exc, ret>>

\* lines 76-77
FetchStore(p) ==
    /\ At(p, "fetch_store")
    /\ Goto(p, IF fileStore THEN "log_store_ready" ELSE "store_missing_status")
    /\ UNCHANGED aside
    /\ UNCHANGED <<shared, jobRead, time_budget_s, batch_size, progress, total,
                   processed, untilDeadline, docs, idx, exc, ret>>

\* line 78
StoreMissingStatus(p) ==
    /\ At(p, "store_missing_status")
    /\ job' = SetJobStatus(job, "failed", "File store not found", NoProgress)
    /\ Goto(p, "store_missing_log")
    /\ UNCHANGED aside
    /\ UNCHANGED <<fileStore, membership, events, io, faults, docTime, calls, lastParams, streak,
                   jobRead, time_budget_s, batch_size, progress, total, processed,
                   untilDeadline, docs, idx, exc, ret>>

\* line 79
StoreMissingLog(p) ==
    /\ At(p, "store_missing_log")
    /\ events' = LogEvent(events, "job_failed", "error", NoDoc, "File store not found",
                          NoProgress)
    /\ Goto(p, "return")
    /\ UNCHANGED aside
    /\ UNCHANGED <<job, fileStore, membership, io, faults, docTime, calls, lastParams, streak,
                   jobRead, time_budget_s, batch_size, progress, total, processed,
                   untilDeadline, docs, idx, exc, ret>>

\* a run that restarts its cursor at 0 instead of reading the stored progress
LogStoreReady_FromZero(p) ==
    /\ At(p, "log_store_ready")
    /\ events' = LogEvent(events, "gemini_store_ready", "info", NoDoc, None, NoProgress)
    /\ progress' = [progress EXCEPT ![p] = 0]
    /\ total' = [total EXCEPT ![p] = jobRead[p].total]
    /\ Goto(p, IF jobRead[p].total = 0 THEN "count_total" ELSE "set_deadline")
    /\ UNCHANGED aside
    /\ UNCHANGED <<job, fileStore, membership, io, faults, docTime, calls, lastParams, streak,
                   jobRead, time_budget_s, batch_size, processed,
                   untilDeadline, docs, idx, exc, ret>>

\* an entry that counts the membership on every run
LogStoreReady_AlwaysCounts(p) ==
    /\ At(p, "log_store_ready")
    /\ events' = LogEvent(events, "gemini_store_ready", "info", NoDoc, None, NoProgress)
    /\ progress' = [progress EXCEPT ![p] = jobRead[p].progress]
    /\ total' = [total EXCEPT ![p] = jobRead[p].total]
    /\ Goto(p, "count_total")
    /\ UNCHANGED aside
    /\ UNCHANGED <<job, fileStore, membership, io, faults, docTime, calls, lastParams, streak,
                   jobRead, time_budget_s, batch_size, processed,
                   untilDeadline, docs, idx, exc, ret>>

\* lines 82-86: log, then the locals progress and total from the row read at entry
LogStoreReady(p) ==
    /\ At(p, "log_store_ready")
    /\ events' = LogEvent(events, "gemini_store_ready", "info", NoDoc, None, NoProgress)
    /\ progress' = [progress EXCEPT ![p] = jobRead[p].progress]
    /\ total' = [total EXCEPT ![p] = jobRead[p].total]
    /\ Goto(p, IF jobRead[p].total = 0 THEN "count_total" ELSE "set_deadline")
    /\ UNCHANGED aside
    /\ UNCHANGED <<job, fileStore, membership, io, faults, docTime, calls, lastParams, streak,
                   jobRead, time_budget_s, batch_size, processed,
                   untilDeadline, docs, idx, exc, ret>>

\* lines 87-95
CountTotal(p) ==
    /\ At(p, "count_total")
    /\ total' = [total EXCEPT ![p] = CountMembership(membership)]
    /\ Goto(p, "write_total")
    /\ UNCHANGED aside
    /\ UNCHANGED <<shared, jobRead, time_budget_s, batch_size, progress,
                   processed, untilDeadline, docs, idx, exc, ret>>

\* line 96
WriteTotal(p) ==
    /\ At(p, "write_total")
    /\ job' = [job EXCEPT !.total = total[p]]
    /\ Goto(p, "set_deadline")
    /\ UNCHANGED aside
    /\ UNCHANGED <<fileStore, membership, events, io, faults, docTime, calls, lastParams, streak,
                   jobRead, time_budget_s, batch_size, progress, total, processed,
                   untilDeadline, docs, idx, exc, ret>>

\* lines 98-99
SetDeadline(p) ==
    /\ At(p, "set_deadline")
    /\ untilDeadline' = [untilDeadline EXCEPT ![p] = time_budget_s[p]]
    /\ processed' = [processed EXCEPT ![p] = 0]
    /\ Goto(p, "while")
    /\ UNCHANGED aside
    /\ UNCHANGED <<shared, jobRead, time_budget_s, batch_size, progress, total,
                   docs, idx, exc, ret>>

\* line 101: time.time() < deadline and progress < total
WhileTest(p) ==
    /\ At(p, "while")
    /\ Goto(p, IF untilDeadline[p] > 0 /\ progress[p] < total[p]
               THEN "fetch_docs" ELSE "after_loop")
    /\ UNCHANGED aside
    /\ UNCHANGED <<shared, jobRead, time_budget_s, batch_size, progress, total,
                   processed, untilDeadline, docs, idx, exc, ret>>

\* a fetch that forgets the OFFSET
FetchDocs_NoOffset(p) ==
    /\ At(p, "fetch_docs")
    /\ LET batch == FetchDocumentsForJob(membership, 0,
                                         Min(batch_size[p], total[p] - progress[p]))
       IN  /\ docs' = [docs EXCEPT ![p] = batch]
           /\ idx' = [idx EXCEPT ![p] = 1]
           /\ Goto(p, IF batch = <<>> THEN "after_loop" ELSE "for")
    /\ UNCHANGED aside
    /\ UNCHANGED <<shared, jobRead, time_budget_s, batch_size, progress, total,
                   processed, untilDeadline, exc, ret>>

\* a fetch that always asks for at least one row
FetchDocs_AtLeastOne(p) ==
    /\ At(p, "fetch_docs")
    /\ LET wanted == Min(batch_size[p], total[p] - progress[p])
           batch == FetchDocumentsForJob(membership, progress[p],
                                         IF wanted < 1 THEN 1 ELSE wanted)
       IN  /\ docs' = [docs EXCEPT ![p] = batch]
           /\ idx' = [idx EXCEPT ![p] = 1]
           /\ Goto(p, IF batch = <<>> THEN "after_loop" ELSE "for")
    /\ UNCHANGED aside
    /\ UNCHANGED <<shared, jobRead, time_budget_s, batch_size, progress, total,
                   processed, untilDeadline, exc, ret>>

\* lines 102-104
FetchDocs(p) ==
    /\ At(p, "fetch_docs")
    /\ LET batch == FetchDocumentsForJob(membership, progress[p],
                                         Min(batch_size[p], total[p] - progress[p]))
       IN  /\ docs' = [docs EXCEPT ![p] = batch]
           /\ idx' = [idx EXCEPT ![p] = 1]
           /\ Goto(p, IF batch = <<>> THEN "after_loop" ELSE "for")
    /\ UNCHANGED aside
    /\ UNCHANGED <<shared, jobRead, time_budget_s, batch_size, progress, total,
                   processed, untilDeadline, exc, ret>>

\* a loop that stops after its first batch
ForTest_SingleBatch(p) ==
    /\ At(p, "for")
    /\ Goto(p, IF idx[p] > Len(docs[p]) THEN "after_loop"
               ELSE IF untilDeadline[p] <= 0 THEN "while" ELSE "log_download")
    /\ UNCHANGED aside
    /\ UNCHANGED <<shared, jobRead, time_budget_s, batch_size, progress, total,
                   processed, untilDeadline, docs, idx, exc, ret>>

\* a deadline test that lets a document start at the deadline itself
ForTest_LateCheck(p) ==
    /\ At(p, "for")
    /\ Goto(p, IF idx[p] > Len(docs[p]) \/ untilDeadline[p] < 0
               THEN "while" ELSE "log_download")
    /\ UNCHANGED aside
    /\ UNCHANGED <<shared, jobRead, time_budget_s, batch_size, progress, total,
                   processed, untilDeadline, docs, idx, exc, ret>>

\* a batch that is always worked to its end
ForTest_NoDeadline(p) ==
    /\ At(p, "for")
    /\ Goto(p, IF idx[p] > Len(docs[p]) THEN "while" ELSE "log_download")
    /\ UNCHANGED aside
    /\ UNCHANGED <<shared, jobRead, time_budget_s, batch_size, progress, total,
                   processed, untilDeadline, docs, idx, exc, ret>>

\* lines 105-107: the next doc of the batch, unless the deadline has passed
ForTest(p) ==
    /\ At(p, "for")
    /\ Goto(p, IF idx[p] > Len(docs[p]) \/ untilDeadline[p] <= 0
               THEN "while" ELSE "log_download")
    /\ UNCHANGED aside
    /\ UNCHANGED <<shared, jobRead, time_budget_s, batch_size, progress, total,
                   processed, untilDeadline, docs, idx, exc, ret>>

\* a _log_event of the document pipeline (lines 109, 111, 117, 123)
LogStep(p, label, message, next) ==
    /\ At(p, label)
    /\ events' = LogEvent(events, message, "info", doc(p), None, NoProgress)
    /\ Goto(p, next)
    /\ UNCHANGED aside
    /\ UNCHANGED <<job, fileStore, membership, io, faults, docTime, calls, lastParams, streak,
                   jobRead, time_budget_s, batch_size, progress, total, processed,
                   untilDeadline, docs, idx, exc, ret>>

\* a remote call of the document pipeline: it returns, or raises with `message`
RemoteStep(p, label, kind, message, next) ==
    /\ At(p, label)
    /\ Bump(doc(p), kind)
    /\ \/ /\ Goto(p, next)
          /\ UNCHANGED exc
       \/ /\ kind \in faults
          /\ exc' = [exc EXCEPT ![p] = message]
          /\ Goto(p, "log_failed")
    /\ UNCHANGED aside
    /\ UNCHANGED <<job, fileStore, membership, events, faults, docTime, calls, lastParams, streak,
                   jobRead, time_budget_s, batch_size, progress, total, processed,
                   untilDeadline, docs, idx, ret>>

\* line 109
LogDownload(p) == LogStep(p, "log_download", "downloading_from_storage", "download")
\* line 110: _download_document_bytes
Download(p) == RemoteStep(p, "download", "download", "download failed", "log_upload")
\* the upload announced with the text of the import
LogUpload_ImportText(p) ==
    LogStep(p, "log_upload", "importing_into_file_search_store", "upload")
\* line 111
LogUpload(p) == LogStep(p, "log_upload", "uploading_to_gemini_files_api", "upload")
\* lines 112-116: gemini_fs.resumable_upload_file
Upload(p) == RemoteStep(p, "upload", "upload", "upload failed", "log_import")
\* line 117
LogImport(p) == LogStep(p, "log_import", "importing_into_file_search_store", "import")
\* lines 118-122: gemini_fs.import_file_into_store
Import(p) == RemoteStep(p, "import", "import", "importFile failed", "log_poll")
\* line 123
LogPoll(p) == LogStep(p, "log_poll", "polling_operation", "poll")

\* time passes by t for every invocation that has set its deadline
Elapse(p, t) ==
    untilDeadline' = [q \in Procs |->
        IF q = p \/ pc[q] \notin {"idle", "set_running", "log_started", "fetch_store",
                                   "store_missing_status", "store_missing_log",
                                   "log_store_ready", "count_total", "write_total",
                                   "set_deadline", "return"}
        THEN untilDeadline[q] - t ELSE untilDeadline[q]]

\* lines 124-126: gemini_fs.poll_operation blocks for the document's processing
\* time; it returns a done operation, raises, or returns one carrying an error
Poll(p) ==
    /\ At(p, "poll")
    /\ Bump(doc(p), "poll")
    /\ Elapse(p, docTime)
    /\ \/ /\ Goto(p, "log_ok")
          /\ UNCHANGED exc
       \/ \E message \in {"operations.get failed", "Operation did not complete",
                          "operation error"} :
             /\ "poll" \in faults
             /\ exc' = [exc EXCEPT ![p] = message]
             /\ Goto(p, "log_failed")
    /\ UNCHANGED aside
    /\ UNCHANGED <<job, fileStore, membership, events, faults, docTime, calls, lastParams, streak,
                   jobRead, time_budget_s, batch_size, progress, total, processed,
                   docs, idx, ret>>

\* lines 127-129
LogOk(p) ==
    /\ At(p, "log_ok")
    /\ events' = LogEvent(events, "indexed_ok", "info", doc(p), None, NoProgress)
    /\ progress' = [progress EXCEPT ![p] = @ + 1]
    /\ processed' = [processed EXCEPT ![p] = @ + 1]
    /\ Goto(p, "persist")
    /\ UNCHANGED aside
    /\ UNCHANGED <<job, fileStore, membership, io, faults, docTime, calls, lastParams, streak,
                   jobRead, time_budget_s, batch_size, total,
                   untilDeadline, docs, idx, exc, ret>>

\* a loop step that stores the progress but stays on the same document
Persist_SameDoc(p) ==
    /\ At(p, "persist")
    /\ job' = SetJobStatus(job, "running", None, progress[p])
    /\ Goto(p, "for")
    /\ UNCHANGED aside
    /\ UNCHANGED <<fileStore, membership, events, io, faults, docTime, calls, lastParams, streak,
                   jobRead, time_budget_s, batch_size, progress, total, processed,
                   untilDeadline, docs, idx, exc, ret>>

\* a loop step that leaves the stored progress to the end of the invocation
Persist_Deferred(p) ==
    /\ At(p, "persist")
    /\ idx' = [idx EXCEPT ![p] = @ + 1]
    /\ Goto(p, "for")
    /\ UNCHANGED aside
    /\ UNCHANGED <<shared, jobRead, time_budget_s, batch_size, progress, total,
                   processed, untilDeadline, docs, exc, ret>>

\* line 130, then the next doc of the batch
Persist(p) ==
    /\ At(p, "persist")
    /\ job' = SetJobStatus(job, "running", None, progress[p])
    /\ idx' = [idx EXCEPT ![p] = @ + 1]
    /\ Goto(p, "for")
    /\ UNCHANGED aside
    /\ UNCHANGED <<fileStore, membership, events, io, faults, docTime, calls, lastParams, streak,
                   jobRead, time_budget_s, batch_size, progress, total, processed,
                   untilDeadline, docs, exc, ret>>

\* lines 131-137
LogFailed(p) ==
    /\ At(p, "log_failed")
    /\ events' = LogEvent(events, "indexed_failed", "error", doc(p), exc[p], NoProgress)
    /\ Goto(p, "fail_status")
    /\ UNCHANGED aside
    /\ UNCHANGED <<job, fileStore, membership, io, faults, docTime, calls, lastParams, streak,
                   jobRead, time_budget_s, batch_size, progress, total, processed,
                   untilDeadline, docs, idx, exc, ret>>

\* a handler that counts the failed document as done
FailStatus_CountsFailed(p) ==
    /\ At(p, "fail_status")
    /\ job' = SetJobStatus(job, "failed", exc[p], progress[p] + 1)
    /\ Goto(p, "log_job_failed")
    /\ UNCHANGED aside
    /\ UNCHANGED <<fileStore, membership, events, io, faults, docTime, calls, lastParams,
                   streak, jobRead, time_budget_s, batch_size, progress, total, processed,
                   untilDeadline, docs, idx, exc, ret>>

\* line 138
FailStatus(p) ==
    /\ At(p, "fail_status")
    /\ job' = SetJobStatus(job, "failed", exc[p], NoProgress)
    /\ Goto(p, "log_job_failed")
    /\ UNCHANGED aside
    /\ UNCHANGED <<fileStore, membership, events, io, faults, docTime, calls, lastParams, streak,
                   jobRead, time_budget_s, batch_size, progress, total, processed,
                   untilDeadline, docs, idx, exc, ret>>

\* a job_failed event that carries a fixed text instead of the exception's
LogJobFailed_Generic(p) ==
    /\ At(p, "log_job_failed")
    /\ events' = LogEvent(events, "job_failed", "error", NoDoc, "Document failed", NoProgress)
    /\ Goto(p, "return")
    /\ UNCHANGED aside
    /\ UNCHANGED <<job, fileStore, membership, io, faults, docTime, calls, lastParams, streak,
                   jobRead, time_budget_s, batch_size, progress, total, processed,
                   untilDeadline, docs, idx, exc, ret>>

\* line 139
LogJobFailed(p) ==
    /\ At(p, "log_job_failed")
    /\ events' = LogEvent(events, "job_failed", "error", NoDoc, exc[p], NoProgress)
    /\ Goto(p, "return")
    /\ UNCHANGED aside
    /\ UNCHANGED <<job, fileStore, membership, io, faults, docTime, calls, lastParams, streak,
                   jobRead, time_budget_s, batch_size, progress, total, processed,
                   untilDeadline, docs, idx, exc, ret>>

\* a completion test that wants more documents done than there are
AfterLoop_StrictlyGreater(p) ==
    /\ At(p, "after_loop")
    /\ IF progress[p] > total[p]
       THEN /\ job' = SetJobStatus(job, "succeeded", None, progress[p])
            /\ Goto(p, "log_succeeded")
       ELSE /\ job' = SetJobStatus(job, "running", None, progress[p])
            /\ Goto(p, "return")
    /\ UNCHANGED aside
    /\ UNCHANGED <<fileStore, membership, events, io, faults, docTime, calls, lastParams, streak,
                   jobRead, time_budget_s, batch_size, progress, total, processed,
                   untilDeadline, docs, idx, exc, ret>>

\* an end of loop that declares success whatever the progress
AfterLoop_AlwaysSucceeds(p) ==
    /\ At(p, "after_loop")
    /\ job' = SetJobStatus(job, "succeeded", None, progress[p])
    /\ Goto(p, "log_succeeded")
    /\ UNCHANGED aside
    /\ UNCHANGED <<fileStore, membership, events, io, faults, docTime, calls, lastParams, streak,
                   jobRead, time_budget_s, batch_size, progress, total, processed,
                   untilDeadline, docs, idx, exc, ret>>

\* lines 142-146
AfterLoop(p) ==
    /\ At(p, "after_loop")
    /\ IF progress[p] >= total[p]
       THEN /\ job' = SetJobStatus(job, "succeeded", None, progress[p])
            /\ Goto(p, "log_succeeded")
       ELSE /\ job' = SetJobStatus(job, "running", None, progress[p])
            /\ Goto(p, "return")
    /\ UNCHANGED aside
    /\ UNCHANGED <<fileStore, membership, events, io, faults, docTime, calls, lastParams, streak,
                   jobRead, time_budget_s, batch_size, progress, total, processed,
                   untilDeadline, docs, idx, exc, ret>>

\* line 144
LogSucceeded(p) ==
    /\ At(p, "log_succeeded")
    /\ events' = LogEvent(events, "job_succeeded", "info", NoDoc, None, processed[p])
    /\ Goto(p, "return")
    /\ UNCHANGED aside
    /\ UNCHANGED <<job, fileStore, membership, io, faults, docTime, calls, lastParams, streak,
                   jobRead, time_budget_s, batch_size, progress, total, processed,
                   untilDeadline, docs, idx, exc, ret>>

\* lines 80, 140, 148: return the row as stored now
Return(p) ==
    /\ At(p, "return")
    /\ ret' = [ret EXCEPT ![p] = job]
    /\ Goto(p, "idle")
    /\ UNCHANGED aside
    /\ UNCHANGED <<shared, jobRead, time_budget_s, batch_size, progress, total,
                   processed, untilDeadline, docs, idx, exc>>

\* every step of an invocation after its entry
Step(p) ==
    \/ SetRunning(p) \/ LogStarted(p) \/ FetchStore(p)
    \/ StoreMissingStatus(p) \/ StoreMissingLog(p)
    \/ LogStoreReady(p) \/ CountTotal(p) \/ WriteTotal(p) \/ SetDeadline(p)
    \/ WhileTest(p) \/ FetchDocs(p) \/ ForTest(p)
    \/ LogDownload(p) \/ Download(p) \/ LogUpload(p) \/ Upload(p)
    \/ LogImport(p) \/ Import(p) \/ LogPoll(p) \/ Poll(p)
    \/ LogOk(p) \/ Persist(p)
    \/ LogFailed(p) \/ FailStatus(p) \/ LogJobFailed(p)
    \/ AfterLoop(p) \/ LogSucceeded(p) \/ Return(p)

AllIdle == \A p \in Procs : pc[p] = "idle"

\* one invocation at a time, on a fixed membership
SerialCall ==
    /\ AllIdle
    /\ calls < MaxCalls
    /\ \E tb \in TimeBudgets, bs \in BatchSizes : Call(FirstProc, tb, bs)

Next == SerialCall \/ Step(FirstProc)

Spec == Init /\ [][Next]_vars

\* ------------------------------------------- calls with any job id
\* POST /v1/admin/ingestion-jobs/{job_id}/run with an id that is not the job's
UnknownIdCall ==
    /\ AllIdle
    /\ calls < MaxCalls
    /\ UnknownCall(FirstProc)

NextIds == Next \/ UnknownIdCall

SpecIds == Init /\ [][NextIds]_vars

\* ------------------------------------------- run until terminal
\* the scheduler invokes the job again, with a positive time budget and
\* batch_size >= 1, until the record returned is terminal
LiveCall ==
    /\ AllIdle
    /\ calls < LiveDocs + 1
    /\ ~IsTerminal(ret[FirstProc].status)
    /\ \E tb \in {t \in TimeBudgets : t > 0}, bs \in {b \in BatchSizes : b >= 1} :
          Call(FirstProc, tb, bs)

NextLive == LiveCall \/ Step(FirstProc)

InitLive ==
    /\ \E n \in 0 .. LiveDocs : \E rows \in Memberships(n) : InitShared(rows, Kinds, DocTimes)
    /\ InitLocals
    /\ InitBench

\* the scheduler keeps invoking and a started invocation keeps executing
SpecLive == InitLive /\ [][NextLive]_vars /\ WF_vars(NextLive)

\* ------------------------------------------- crash and resume
\* the process serving an invocation dies between two statements: its locals
\* are gone, nothing is returned, the rows stay as written so far
Crash(p) ==
    /\ ~At(p, "idle")
    /\ pc' = [pc EXCEPT ![p] = "idle"]
    /\ jobRead' = [jobRead EXCEPT ![p] = NoJob]
    /\ time_budget_s' = [time_budget_s EXCEPT ![p] = 0]
    /\ batch_size' = [batch_size EXCEPT ![p] = 0]
    /\ progress' = [progress EXCEPT ![p] = 0]
    /\ total' = [total EXCEPT ![p] = 0]
    /\ processed' = [processed EXCEPT ![p] = 0]
    /\ untilDeadline' = [untilDeadline EXCEPT ![p] = 0]
    /\ docs' = [docs EXCEPT ![p] = <<>>]
    /\ idx' = [idx EXCEPT ![p] = 0]
    /\ exc' = [exc EXCEPT ![p] = None]
    /\ UNCHANGED <<shared, ret, aside>>

\* the scheduler runs the job again, one invocation at a time
CrashCall ==
    /\ AllIdle
    /\ calls < CrashCalls
    /\ Call(FirstProc, Ample, DefaultBatch)

NextCrash == CrashCall \/ Step(FirstProc) \/ Crash(FirstProc)

InitCrash ==
    /\ \E n \in 0 .. CrashDocs : InitShared({<<d, d>> : d \in 1 .. n}, Kinds, {1})
    /\ InitLocals
    /\ InitBench

SpecCrash == InitCrash /\ [][NextCrash]_vars

\* ------------------------------------------- the progress UI
\* the UI polls GET .../events?after_id=<largest id seen> and keeps what it gets
PollEvents ==
    /\ LET rows == GetEvents(events, ThisJob, cursor)
       IN  /\ seen' = seen \o rows
           /\ cursor' = IF rows = <<>> THEN cursor ELSE rows[Len(rows)].id
    /\ UNCHANGED <<shared, locals, raised, bench>>

\* _log_event of an invocation on another job: its job_started row takes the
\* next id of the same table
OtherJobLogs ==
    /\ \A i \in 1 .. Len(events) : events[i].job_id = ThisJob
    /\ events' = Append(events, [Event("job_started", "info", NoDoc, None, NoProgress)
                                    EXCEPT !.job_id = OtherJob])
    /\ UNCHANGED <<job, fileStore, membership, io, faults, docTime, calls, lastParams, streak,
                   locals, aside>>

\* the scheduler runs the job, one invocation at a time
PollCall ==
    /\ AllIdle
    /\ calls < MaxCalls
    /\ Call(FirstProc, Ample, DefaultBatch)

NextPoll == PollCall \/ Step(FirstProc) \/ PollEvents \/ OtherJobLogs

InitPoll ==
    /\ \E n \in 0 .. PollDocs : InitShared({<<d, d>> : d \in 1 .. n}, Kinds, {1})
    /\ InitLocals
    /\ InitBench

SpecPoll == InitPoll /\ [][NextPoll]_vars

\* ------------------------------------------- overlapping invocations
\* attach_documents (src/api/main.py): a document joins the job's store, added_at = now()
AttachDocument(d) ==
    /\ d \notin {r[2] : r \in membership}
    /\ LET at == IF membership = {} THEN 1
                 ELSE 1 + (CHOOSE t \in {r[1] : r \in membership} :
                              \A r \in membership : r[1] <= t)
       IN  membership' = membership \cup {<<at, d>>}
    /\ UNCHANGED aside
    /\ UNCHANGED <<job, fileStore, events, io, faults, docTime, calls, lastParams, streak, locals>>

\* a new invocation starts while others may be running (on the lowest idle
\* process: which one serves it makes no difference)
ConcCall ==
    /\ calls < ConcCalls
    /\ \E p \in Procs :
          /\ \A q \in Procs : q < p => pc[q] # "idle"
          /\ Call(p, Ample, DefaultBatch)

Attach == \E d \in 1 .. ConcDocs : AttachDocument(d)

NextConc == ConcCall \/ (\E p \in Procs : Step(p)) \/ Attach

InitConc ==
    /\ \E n \in 0 .. ConcDocs : InitShared({<<d, d>> : d \in 1 .. n}, {"download"}, {1})
    /\ InitLocals
    /\ InitBench

SpecConc == InitConc /\ [][NextConc]_vars

\* ------------------------------------------- membership changes between runs
\* a document of the store is deleted: its file_store_documents row goes with
\* it (ON DELETE CASCADE)
RemoveDocument(d) ==
    /\ membership' = {r \in membership : r[2] # d}
    /\ membership' # membership
    /\ UNCHANGED <<job, fileStore, events, io, faults, docTime, calls, lastParams, streak,
                   locals, aside>>

\* the largest added_at of the membership, 0 when it is empty
LastAddedAt ==
    IF membership = {} THEN 0
    ELSE CHOOSE t \in {r[1] : r \in membership} : \A r \in membership : r[1] <= t

\* documents join and leave the store while no invocation is running
Grow == AllIdle /\ LastAddedAt < MemDocs /\ \E d \in 1 .. MemDocs : AttachDocument(d)
Shrink == AllIdle /\ \E d \in 1 .. MemDocs : RemoveDocument(d)

MembersCall ==
    /\ AllIdle
    /\ calls < MemCalls
    /\ \E tb \in TimeBudgets, bs \in BatchSizes : Call(FirstProc, tb, bs)

NextMembers == MembersCall \/ Step(FirstProc) \/ Grow \/ Shrink

InitMembers ==
    /\ \E n \in 0 .. MemDocs : InitShared({<<d, d>> : d \in 1 .. n}, {"download"}, {1})
    /\ InitLocals
    /\ InitBench

SpecMembers == InitMembers /\ [][NextMembers]_vars

\* ------------------------------------------- _set_job_status on its own
JobIds == {ThisJob, OtherJob}

\* rows of ingestion_jobs as any earlier writes may have left them
JobRows ==
    [status : {"queued", "running"}, progress : {0, 1}, total : {2},
     error : {None, "old error"}, file_store_id : {"store"}, updated_at : {0}]

\* no job is run while a function is exercised on its own
InitNoRun ==
    /\ InitShared({}, {}, {1})
    /\ fileStore
    /\ InitLocals

InitStatus ==
    /\ InitNoRun
    /\ op = NoOp
    /\ prompt = NoPrompt
    /\ \E mine \in JobRows :
          jobsTable = [rows |-> [k \in JobIds |->
                                    IF k = ThisJob THEN mine
                                    ELSE [mine EXCEPT !.status = "running"]],
                       clock |-> 0, update |-> NoUpdate]

\* _set_job_status(job_id, status, error, progress), for an id of the table
\* or an unknown one
SetStatus(job_id, status, error, prog) ==
    /\ jobsTable.clock < MaxUpdates
    /\ jobsTable' = [rows |-> UpdateJobStatus(jobsTable.rows, jobsTable.clock + 1,
                                              job_id, status, error, prog),
                     clock |-> jobsTable.clock + 1,
                     update |-> [job_id |-> job_id, status |-> status, error |-> error,
                                 progress |-> prog]]
    /\ UNCHANGED <<shared, locals, raised, cursor, seen, op, prompt>>

NextStatus ==
    \E job_id \in JobIds \cup {"unknown job"},
       status \in {"running", "failed"},
       error \in {None, "", "boom"},
       prog \in {NoProgress, 0, 2} : SetStatus(job_id, status, error, prog)

SpecStatus == InitStatus /\ [][NextStatus]_vars

\* ------------------------------------------- poll_operation on its own
\* answers of GET operations/<name>: a status code, whether the body is JSON,
\* and the body's done and error fields
Responses ==
    {[code |-> 200, json |-> TRUE, done |-> FALSE, error |-> None],
     [code |-> 200, json |-> TRUE, done |-> TRUE, error |-> None],
     [code |-> 200, json |-> TRUE, done |-> TRUE, error |-> "quota exceeded"],
     [code |-> 300, json |-> TRUE, done |-> FALSE, error |-> None],
     [code |-> 304, json |-> FALSE, done |-> FALSE, error |-> None],
     [code |-> 404, json |-> TRUE, done |-> FALSE, error |-> "not found"],
     [code |-> 503, json |-> FALSE, done |-> FALSE, error |-> None]}

InitOp ==
    /\ InitNoRun
    /\ jobsTable = NoTable
    /\ prompt = NoPrompt
    /\ op = NoOp

OpFrame == UNCHANGED <<shared, locals, raised, cursor, seen, jobsTable, prompt>>

\* lines 125-128: deadline = time.time() + max_wait_s; last = None
OpStart ==
    /\ op.pc = "idle"
    /\ \E max_wait_s \in 0 .. MaxWait, poll_every_s \in 1 .. MaxEvery :
          op' = [NoOp EXCEPT !.pc = "test", !.max_wait_s = max_wait_s,
                             !.poll_every_s = poll_every_s, !.wait = max_wait_s]
    /\ OpFrame

\* a loop test that still asks at the deadline itself
OpTest_Inclusive ==
    /\ op.pc = "test"
    /\ op' = IF op.wait >= 0 THEN [op EXCEPT !.pc = "request"]
             ELSE [op EXCEPT !.pc = "raised", !.raised = "Operation did not complete"]
    /\ OpFrame

\* lines 129 and 137: while time.time() < deadline, else the timeout error
OpTest ==
    /\ op.pc = "test"
    /\ op' = IF op.wait > 0 THEN [op EXCEPT !.pc = "request"]
             ELSE [op EXCEPT !.pc = "raised", !.raised = "Operation did not complete"]
    /\ OpFrame

\* lines 130-135: the request takes `took`; an answer of 400 or above raises,
\* a body that is not JSON makes resp.json() raise, a done body is returned
OpRequest ==
    /\ op.pc = "request"
    /\ \E resp \in Responses, took \in {0, 1} :
          LET asked == [op EXCEPT !.requests = @ + 1, !.wait = @ - took, !.resp = resp]
          IN  op' = IF resp.code >= 400
                    THEN [asked EXCEPT !.pc = "raised", !.raised = "operations.get failed"]
                    ELSE IF ~resp.json
                    THEN [asked EXCEPT !.pc = "raised", !.raised = "invalid JSON"]
                    ELSE IF resp.done = TRUE
                    THEN [asked EXCEPT !.pc = "returned", !.last = resp, !.out = resp]
                    ELSE [asked EXCEPT !.pc = "sleep", !.last = resp]
    /\ OpFrame

\* line 136: time.sleep(poll_every_s)
OpSleep ==
    /\ op.pc = "sleep"
    /\ op' = [op EXCEPT !.pc = "test", !.wait = @ - op.poll_every_s]
    /\ OpFrame

NextOp == OpStart \/ OpTest \/ OpRequest \/ OpSleep

SpecOp == InitOp /\ [][NextOp]_vars

\* ------------------------------------------- render_prompt on its own
\* a template is a sequence of pieces: plain text, or a placeholder {{s}}
Text(s) == [ph |-> FALSE, s |-> s]
Placeholder(s) == [ph |-> TRUE, s |-> s]
Pieces == {Text("a"), Placeholder("x"), Placeholder("y")}

\* the templates of at most n pieces
Templates(n) == UNION {[1 .. k -> Pieces] : k \in 0 .. n}

\* context values: None, the empty string, a text
Values == {[none |-> TRUE, text |-> <<>>], [none |-> FALSE, text |-> <<>>],
           [none |-> FALSE, text |-> <<Text("v")>>]}

\* a dict, as the sequence of its items in insertion order
Contexts ==
    {<<>>}
      \cup {<<[key |-> k, value |-> v]>> : k \in {"x", "y"}, v \in Values}
      \cup {<<[key |-> k[1], value |-> v], [key |-> k[2], value |-> w]>> :
               k \in {<<"x", "y">>, <<"y", "x">>}, v \in Values, w \in Values}

\* line 21: out.replace("{{" + key + "}}", value or "")
RECURSIVE Replace(_, _, _)
Replace(out, key, value) ==
    IF out = <<>> THEN <<>>
    ELSE (IF Head(out).ph /\ Head(out).s = key
          THEN (IF value.none THEN <<>> ELSE value.text)
          ELSE <<Head(out)>>) \o Replace(Tail(out), key, value)

\* lines 18-22: one replace per item of the context, in order
RECURSIVE RenderPrompt(_, _)
RenderPrompt(template, context) ==
    IF context = <<>> THEN template
    ELSE RenderPrompt(Replace(template, Head(context).key, Head(context).value),
                      Tail(context))

InitRender ==
    /\ InitNoRun
    /\ jobsTable = NoTable
    /\ op = NoOp
    /\ \E template \in Templates(MaxTemplate), context \in Contexts :
          prompt = [template |-> template, context |-> context, out |-> <<>>,
                    done |-> FALSE]

Render ==
    /\ ~prompt.done
    /\ prompt' = [prompt EXCEPT !.out = RenderPrompt(prompt.template, prompt.context),
                                !.done = TRUE]
    /\ UNCHANGED <<shared, locals, raised, cursor, seen, jobsTable, op>>

SpecRender == InitRender /\ [][Render]_vars

\* ------------------------------------------------------------------ claims
Terminal == {"succeeded", "failed"}
Returned(p) == pc[p] = "idle" /\ ret[p] # NoJob
EventsOf(message) == {i \in 1 .. Len(events) : events[i].message = message}

\* C1: an invocation on a job whose stored status is succeeded or failed
\* returns the stored record and changes neither the row, nor the event log,
\* nor the remote calls made
C1_TerminalRunIsNoOp ==
    [][(job.status \in Terminal /\ calls' = calls + 1)
         => /\ job' = job
            /\ events' = events
            /\ io' = io
            /\ pc'[FirstProc] = "idle"
            /\ ret'[FirstProc] = job]_vars

\* an invocation that read a terminal row has returned
C1_Witness ==
    /\ Returned(FirstProc)
    /\ jobRead[FirstProc].status \in Terminal
    /\ ret[FirstProc] = job

\* C2: under one-at-a-time invocations the stored status only steps
\* queued -> running -> {succeeded, failed}, with running -> running allowed
C2_StatusSteps ==
    [][\/ job'.status = job.status
       \/ job.status = "queued" /\ job'.status = "running"
       \/ job.status = "running" /\ job'.status \in Terminal]_vars

\* a job that went through running in one invocation and succeeded in a later one
C2_Witness ==
    /\ job.status = "succeeded"
    /\ Returned(FirstProc)
    /\ jobRead[FirstProc].status = "running"
    /\ jobRead[FirstProc].progress > 0

\* C3: under one-at-a-time invocations the stored progress never decreases
C3_ProgressMonotone == [][job'.progress >= job.progress]_vars

\* a resumed invocation that advanced the stored progress and then failed
C3_Witness ==
    /\ Returned(FirstProc)
    /\ jobRead[FirstProc].progress > 0
    /\ job.progress > jobRead[FirstProc].progress
    /\ job.status = "failed"

\* C4: in every reachable state, overlapping invocations included, the stored
\* values satisfy 0 <= progress <= total
C4_ProgressWithinTotal == 0 <= job.progress /\ job.progress <= job.total

\* C5: once the stored status is succeeded or failed, no write of any
\* invocation, in flight or started later, changes status, progress, total or error
C5_TerminalRowFrozen ==
    [][job.status \in Terminal => job' = job]_vars

\* the processing order the job is documented to follow: membership added_at
\* ascending, then document id ascending
Precedes(r, s) == r[1] < s[1] \/ (r[1] = s[1] /\ r[2] < s[2])
RowOf(d) == CHOOSE r \in membership : r[2] = d
\* 0-indexed position of document d in that order
Position(d) == Cardinality({r \in membership : Precedes(r, RowOf(d))})
Members == {r[2] : r \in membership}
Started == SelectSeq(events, LAMBDA e : e.message = "downloading_from_storage")
IndexedOk(d) == \E i \in EventsOf("indexed_ok") : events[i].doc = d

\* C6: when a run that started from progress 0 returns after the document at
\* position k raised, the stored progress is k, the status is failed, an
\* indexed_failed event carries that document's id, and no pipeline step was
\* started for a document at a later position
C6_FailFast ==
    (Returned(FirstProc) /\ exc[FirstProc] # None /\ jobRead[FirstProc].progress = 0)
      => LET d == docs[FirstProc][idx[FirstProc]]
         IN  /\ ret[FirstProc].progress = Position(d)
             /\ job.progress = Position(d)
             /\ ret[FirstProc].status = "failed"
             /\ \E i \in EventsOf("indexed_failed") : events[i].doc = d
             /\ \A e \in Members :
                   Position(e) > Position(d)
                     => /\ io[e] = NoIo
                        /\ \A i \in 1 .. Len(events) : events[i].doc # e

\* the document at position 2 of a longer membership raised and the run returned
C6_Witness ==
    /\ Returned(FirstProc)
    /\ exc[FirstProc] # None
    /\ jobRead[FirstProc].progress = 0
    /\ Position(docs[FirstProc][idx[FirstProc]]) = 2
    /\ Cardinality(membership) > 3

\* C7: a single run on a queued job whose budget does not expire, with
\* batch_size >= 1 and no failing document, returns succeeded with
\* progress = total = the number of member documents
C7_SingleRunCompletes ==
    (/\ Returned(FirstProc)
     /\ calls = 1
     /\ fileStore
     /\ batch_size[FirstProc] >= 1
     /\ untilDeadline[FirstProc] > 0
     /\ exc[FirstProc] = None)
      => /\ ret[FirstProc].status = "succeeded"
         /\ ret[FirstProc].progress = Cardinality(membership)
         /\ ret[FirstProc].total = Cardinality(membership)
         /\ \A d \in Members : IndexedOk(d)

\* 7 documents, batch_size 5: the first run returned succeeded with progress 7
C7_Witness ==
    /\ Returned(FirstProc)
    /\ calls = 1
    /\ Cardinality(membership) = 7
    /\ batch_size[FirstProc] = 5
    /\ ret[FirstProc].status = "succeeded"
    /\ ret[FirstProc].progress = 7

\* the second of two runs with the same parameters has returned without a
\* failure, on 7 documents of which the first run completed exactly 3
SecondRunAfterThree ==
    /\ Returned(FirstProc)
    /\ calls = 2
    /\ streak = 2
    /\ Cardinality(membership) = 7
    /\ jobRead[FirstProc].status = "running"
    /\ jobRead[FirstProc].progress = 3
    /\ exc[FirstProc] = None

\* the third such run has returned without a failure, the first two having
\* completed 3 documents each
ThirdRunAfterSix ==
    /\ Returned(FirstProc)
    /\ calls = 3
    /\ streak = 3
    /\ Cardinality(membership) = 7
    /\ jobRead[FirstProc].status = "running"
    /\ jobRead[FirstProc].progress = 6
    /\ exc[FirstProc] = None

\* C8 as stated: that second run completes the remaining 4 documents and
\* returns succeeded with progress 7
C8_SecondRunFinishes ==
    SecondRunAfterThree
      => ret[FirstProc].status = "succeeded" /\ ret[FirstProc].progress = 7

\* C8 amended: the second run, under the same budget, completes 3 more
\* documents and returns running with progress 6; a third run with the same
\* parameters completes the last document and returns succeeded with progress 7
C8_SecondRunAdvancesThree ==
    /\ SecondRunAfterThree
         => ret[FirstProc].status = "running" /\ ret[FirstProc].progress = 6
    /\ ThirdRunAfterSix
         => ret[FirstProc].status = "succeeded" /\ ret[FirstProc].progress = 7

\* the third run of the scenario returned
C8_Witness ==
    /\ ThirdRunAfterSix
    /\ time_budget_s[FirstProc] = 3
    /\ batch_size[FirstProc] = 5
    /\ docTime = 1
    /\ ret[FirstProc].progress = 7

\* C9: the i-th document whose pipeline is started, over all invocations, is
\* the document at position i - 1 of the order (added_at, then id): a resumed
\* run continues where an uninterrupted run would
C9_StableOrder ==
    \A i \in 1 .. Len(Started) : Position(Started[i].doc) = i - 1

\* a resumed run finished a membership whose order is not the id order
C9_Witness ==
    /\ Returned(FirstProc)
    /\ jobRead[FirstProc].progress > 1
    /\ job.status = "succeeded"
    /\ Len(Started) > 3
    /\ \E d \in Members : Position(d) # d - 1

\* C10: under one-at-a-time invocations on a fixed membership no document is
\* downloaded, uploaded or imported twice, and none is touched again once it
\* has an indexed_ok event
C10_AtMostOnce ==
    [][\A d \in DocIds :
          /\ IndexedOk(d) => io'[d] = io[d]
          /\ io'[d].download <= 1
          /\ io'[d].upload <= 1
          /\ io'[d].import <= 1]_vars

\* three runs took every document of a membership through the pipeline once
C10_Witness ==
    /\ calls = 3
    /\ job.status = "succeeded"
    /\ jobRead[FirstProc].progress > 0
    /\ Cardinality(membership) > 2
    /\ \A d \in Members : io[d].upload = 1

\* the last event of the log
LastEvent == events[Len(events)]

\* C12: a call on a non-terminal job whose file store row is missing returns
\* failed with error "File store not found", its last event is job_failed
\* with that error, progress and total are as read at entry, and no document
\* was fetched or sent to any remote call
C12_StoreMissingFails ==
    (/\ Returned(FirstProc)
     /\ ~fileStore
     /\ jobRead[FirstProc].status \notin Terminal)
      => /\ ret[FirstProc].status = "failed"
         /\ ret[FirstProc].error = "File store not found"
         /\ Len(events) > 0
         /\ LastEvent.message = "job_failed"
         /\ LastEvent.error = "File store not found"
         /\ ret[FirstProc].progress = jobRead[FirstProc].progress
         /\ ret[FirstProc].total = jobRead[FirstProc].total
         /\ docs[FirstProc] = <<>>
         /\ \A d \in DocIds : io[d] = NoIo
         /\ \A i \in 1 .. Len(events) : events[i].doc = NoDoc

\* a call on a queued job with members and no file store row has returned
C12_Witness ==
    /\ Returned(FirstProc)
    /\ ~fileStore
    /\ jobRead[FirstProc].status = "queued"
    /\ Cardinality(membership) > 1
    /\ ret[FirstProc].status = "failed"

\* C14: once the handler of a raising document step has run, the last two
\* events are indexed_failed then job_failed, and the exception's message is
\* the error of both and the error stored in the row
C14_SameMessage ==
    (/\ pc[FirstProc] \in {"return", "idle"}
     /\ exc[FirstProc] # None)
      => /\ Len(events) > 1
         /\ events[Len(events) - 1].message = "indexed_failed"
         /\ events[Len(events) - 1].error = exc[FirstProc]
         /\ LastEvent.message = "job_failed"
         /\ LastEvent.error = exc[FirstProc]
         /\ job.error = exc[FirstProc]
         /\ job.status = "failed"

\* a poll that returned an operation carrying an error failed the job
C14_Witness ==
    /\ Returned(FirstProc)
    /\ exc[FirstProc] = "operation error"
    /\ ret[FirstProc].error = "operation error"
    /\ jobRead[FirstProc].progress > 0

\* C19: a downloading_from_storage event is appended only strictly before the
\* invocation's deadline, and from its deadline on an invocation is late by
\* less than one document's processing time
C19_StartsBeforeDeadline ==
    [][/\ (Len(events') > Len(events)
            /\ events'[Len(events')].message = "downloading_from_storage")
          => untilDeadline[FirstProc] > 0
       /\ untilDeadline'[FirstProc] > 0 - docTime]_vars

\* a run returned past its deadline, by less than a document's time
C19_Witness ==
    /\ Returned(FirstProc)
    /\ untilDeadline[FirstProc] < 0
    /\ processed[FirstProc] > 1
    /\ ret[FirstProc].status = "running"

\* the precondition of C20: the invocation has returned, and its budget T
\* and the per-document time p satisfy 0 < p < T
BudgetedRunReturned ==
    /\ Returned(FirstProc)
    /\ jobRead[FirstProc].status \notin Terminal
    /\ 0 < docTime
    /\ docTime < time_budget_s[FirstProc]

\* C20 as stated: such an invocation completes at most floor(T / p) documents
C20_AtMostFloor ==
    BudgetedRunReturned
      => processed[FirstProc] <= time_budget_s[FirstProc] \div docTime

\* C20 amended: it completes at most ceil(T / p) documents, a document being
\* started whenever the deadline has not been reached
C20_AtMostCeiling ==
    BudgetedRunReturned
      => processed[FirstProc] <= (time_budget_s[FirstProc] + docTime - 1) \div docTime

\* a run with budget 3 and 2 per document completed 2 documents
C20_Witness ==
    /\ BudgetedRunReturned
    /\ processed[FirstProc] > time_budget_s[FirstProc] \div docTime
    /\ ret[FirstProc].status = "running"

\* C15: an invocation that starts while another is in flight is not held
\* back: it reads the row as stored and goes on to process it, so two live
\* invocations can upload the same document; each invocation uploads a
\* document at most once, so a document's uploads never exceed the
\* invocations started
C15_OverlapUnguarded ==
    [][/\ (calls' = calls + 1 /\ job.status \notin Terminal)
          => \E p \in Procs : /\ pc[p] = "idle"
                              /\ pc'[p] = "set_running"
                              /\ jobRead'[p] = job
       /\ \A d \in DocIds : io'[d].upload <= calls' /\ io'[d].import <= calls']_vars

\* two live invocations that read the same stored progress have both
\* uploaded and imported the same document
C15_Witness ==
    /\ \A p \in Procs : pc[p] = "log_poll"
    /\ \A p, q \in Procs : /\ jobRead[p].progress = jobRead[q].progress
                            /\ docs[p][idx[p]] = docs[q][idx[q]]
    /\ \E d \in DocIds : io[d].upload = 2 /\ io[d].import = 2

\* C17: the event log holds at most one job_succeeded event
C17_OneSucceeded == Cardinality(EventsOf("job_succeeded")) <= 1

\* C13: no invocation raises to its caller, whatever the job id and the
\* outcome of the document pipeline
C13_NeverRaises == \A p \in Procs : raised[p] = None

\* the documents that have an indexed_ok event and lie at or after the stored
\* progress in the order: the next invocation processes them again
Redone == {d \in Members : IndexedOk(d) /\ Position(d) >= job.progress}

\* C16: at every point at which an invocation can crash, at most one
\* document has an indexed_ok event without being counted in the stored
\* progress
C16_AtMostOneRedone == Cardinality(Redone) <= 1

\* an invocation crashed between a document's indexed_ok and the write of
\* progress; the runs after it indexed that document again and finished
C16_Witness ==
    /\ job.status = "succeeded"
    /\ Cardinality(membership) > 1
    /\ \E d \in Members :
          /\ Cardinality({i \in EventsOf("indexed_ok") : events[i].doc = d}) = 2
          /\ io[d].upload = 2

\* the ids of the job's events, in the order they were appended
JobEventIds ==
    SelectSeq([i \in 1 .. Len(events) |-> i], LAMBDA i : events[i].job_id = ThisJob)

\* C18: for every after_id the events endpoint returns the job's events with
\* a larger id, each with its own content, in ascending id order; what a
\* client polling with the largest id it has seen has received is the job's
\* events up to that id, each once, in the order they were appended
C18_EachEventOnce ==
    /\ \A a \in 0 .. Len(events) :
          LET rows == GetEvents(events, ThisJob, a)
          IN  /\ [k \in 1 .. Len(rows) |-> rows[k].id]
                   = SelectSeq(JobEventIds, LAMBDA i : i > a)
              /\ \A k \in 1 .. Len(rows) :
                    /\ rows[k].message = events[rows[k].id].message
                    /\ rows[k].doc = events[rows[k].id].doc
    /\ [k \in 1 .. Len(seen) |-> seen[k].id]
         = SelectSeq(JobEventIds, LAMBDA i : i <= cursor)
    /\ \A k \in 1 .. Len(seen) : seen[k].message = events[seen[k].id].message

\* the client has every event of a run that succeeded, another job's event
\* lying between two of them
C18_Witness ==
    /\ job.status = "succeeded"
    /\ Len(seen) = Len(JobEventIds)
    /\ Len(JobEventIds) < Len(events)
    /\ cursor = Len(events)
    /\ \E k \in 1 .. Len(seen) - 1 : seen[k + 1].id > seen[k].id + 1
    /\ seen[Len(seen)].message = "job_succeeded"
    /\ Cardinality(membership) > 0

\* C11: invoked again and again, one invocation at a time, with a positive
\* time budget and batch_size >= 1 on a fixed membership, the job eventually
\* returns a record whose status is succeeded or failed
C11_EventuallyTerminal ==
    <>(Returned(FirstProc) /\ ret[FirstProc].status \in Terminal)

\* a run that resumed a running job returned succeeded
C11_Witness ==
    /\ Returned(FirstProc)
    /\ calls > 1
    /\ jobRead[FirstProc].status = "running"
    /\ jobRead[FirstProc].progress > 0
    /\ ret[FirstProc].status = "succeeded"

StuckAtEntry ==
    /\ jobRead[FirstProc].status \notin Terminal
    /\ fileStore
    /\ jobRead[FirstProc].total # 0
    /\ Cardinality(membership) < jobRead[FirstProc].total
    /\ jobRead[FirstProc].progress = Cardinality(membership)

\* C28: such an invocation processes nothing and returns status running with
\* the progress it found, so the job stays short of a terminal status
C28_StuckAfterRemoval ==
    [][(pc[FirstProc] = "return" /\ pc'[FirstProc] = "idle" /\ StuckAtEntry)
         => /\ ret'[FirstProc].status = "running"
            /\ ret'[FirstProc].progress = jobRead[FirstProc].progress
            /\ ret'[FirstProc].total = jobRead[FirstProc].total
            /\ processed[FirstProc] = 0
            /\ docs[FirstProc] = <<>>
            /\ job'.status = "running"]_vars

\* a run with an ample budget on a running job, one of whose documents was
\* removed after the first was indexed, returned running
C28_Witness ==
    /\ Returned(FirstProc)
    /\ StuckAtEntry
    /\ jobRead[FirstProc].status = "running"
    /\ jobRead[FirstProc].progress > 0
    /\ time_budget_s[FirstProc] = Ample
    /\ batch_size[FirstProc] = DefaultBatch
    /\ ret[FirstProc].status = "running"
    /\ ret[FirstProc].progress = jobRead[FirstProc].progress

\* the message that precedes `message` in a document's pipeline
StepBefore(message) ==
    CASE message = "uploading_to_gemini_files_api" -> {"downloading_from_storage"}
      [] message = "importing_into_file_search_store" -> {"uploading_to_gemini_files_api"}
      [] message = "polling_operation" -> {"importing_into_file_search_store"}
      [] message = "indexed_ok" -> {"polling_operation"}
      [] message = "indexed_failed" -> {"downloading_from_storage",
                                        "uploading_to_gemini_files_api",
                                        "importing_into_file_search_store",
                                        "polling_operation"}
      [] OTHER -> {}

\* the remote call that has returned when `message` is logged
CallBefore(message) ==
    CASE message = "uploading_to_gemini_files_api" -> "download"
      [] message = "importing_into_file_search_store" -> "upload"
      [] message = "polling_operation" -> "import"
      [] OTHER -> "poll"

\* C22: every event of a document other than downloading_from_storage
\* directly follows the event of the previous step of the same document,
\* logged once that step's remote call had returned; a document's
\* downloading_from_storage follows gemini_store_ready or the indexed_ok of
\* another document, and no earlier event carries the same document
C22_PipelineOrder ==
    /\ \A i \in 1 .. Len(events) :
          events[i].doc # NoDoc
            => /\ i > 1
               /\ IF events[i].message = "downloading_from_storage"
                  THEN \/ events[i - 1].message = "gemini_store_ready"
                       \/ /\ events[i - 1].message = "indexed_ok"
                          /\ events[i - 1].doc # events[i].doc
                  ELSE /\ events[i - 1].doc = events[i].doc
                       /\ events[i - 1].message \in StepBefore(events[i].message)
    /\ \A i \in EventsOf("downloading_from_storage") :
          \A j \in 1 .. i - 1 : events[j].doc # events[i].doc
    /\ (Len(events) > 0 /\ LastEvent.doc # NoDoc
           /\ LastEvent.message \notin {"downloading_from_storage", "indexed_failed"})
         => io[LastEvent.doc][CallBefore(LastEvent.message)] > 0

\* two documents went through the five steps in one invocation
C22_Witness ==
    /\ Returned(FirstProc)
    /\ calls = 1
    /\ processed[FirstProc] > 1
    /\ Len(events) > 11
    /\ events[3].message = "downloading_from_storage"
    /\ events[7].message = "indexed_ok"
    /\ events[8].message = "downloading_from_storage"
    /\ events[8].doc # events[7].doc

\* an invocation on a non-terminal job with a file store has returned, no
\* document of it having failed
LoopEndedNormally ==
    /\ Returned(FirstProc)
    /\ jobRead[FirstProc].status \notin Terminal
    /\ fileStore
    /\ exc[FirstProc] = None

\* C23: such an invocation returns succeeded, its last event job_succeeded,
\* exactly when its progress reached its total; otherwise it returns running
\* and the log holds no job_succeeded and no job_failed event; either way
\* the stored progress is the progress it reached
C23_SucceededIffComplete ==
    LoopEndedNormally
      => /\ ret[FirstProc].status = "succeeded" <=> progress[FirstProc] >= total[FirstProc]
         /\ ret[FirstProc].progress = progress[FirstProc]
         /\ IF progress[FirstProc] >= total[FirstProc]
            THEN /\ LastEvent.message = "job_succeeded"
                 /\ Cardinality(EventsOf("job_succeeded")) = 1
                 /\ EventsOf("job_failed") = {}
            ELSE /\ ret[FirstProc].status = "running"
                 /\ EventsOf("job_succeeded") = {}
                 /\ EventsOf("job_failed") = {}

\* a run stopped by its deadline short of the total returned running
C23_Witness ==
    /\ LoopEndedNormally
    /\ processed[FirstProc] > 0
    /\ progress[FirstProc] < total[FirstProc]
    /\ untilDeadline[FirstProc] <= 0
    /\ ret[FirstProc].status = "running"

\* C27: the first invocation on a job whose store has no member and whose
\* stored total is 0 returns succeeded with progress 0 and total 0; the log
\* is job_started, gemini_store_ready, job_succeeded and no remote call was
\* made
C27_EmptyStoreSucceeds ==
    (/\ Returned(FirstProc)
     /\ jobRead[FirstProc].status = "queued"
     /\ jobRead[FirstProc].total = 0
     /\ membership = {}
     /\ fileStore)
      => /\ ret[FirstProc].status = "succeeded"
         /\ ret[FirstProc].progress = 0
         /\ ret[FirstProc].total = 0
         /\ [i \in 1 .. Len(events) |-> events[i].message]
              = <<"job_started", "gemini_store_ready", "job_succeeded">>
         /\ \A i \in 1 .. Len(events) : events[i].doc = NoDoc
         /\ \A d \in DocIds : io[d] = NoIo

\* the first run on an empty store returned, its budget being 0
C27_Witness ==
    /\ Returned(FirstProc)
    /\ calls = 1
    /\ membership = {}
    /\ fileStore
    /\ time_budget_s[FirstProc] = 0
    /\ ret[FirstProc].status = "succeeded"

\* an invocation with batch_size 0 or a time budget <= 0 has returned from a
\* non-terminal job with a file store and with progress < total
IdleRunReturned ==
    /\ Returned(FirstProc)
    /\ jobRead[FirstProc].status \notin Terminal
    /\ fileStore
    /\ batch_size[FirstProc] = 0 \/ time_budget_s[FirstProc] <= 0
    /\ jobRead[FirstProc].progress < total[FirstProc]

\* C29: such an invocation logs job_started (and gemini_store_ready) and
\* nothing else, fetches and processes no document, leaves the stored
\* progress as read and returns status running
C29_NoBudgetNoWork ==
    IdleRunReturned
      => /\ ret[FirstProc].status = "running"
         /\ ret[FirstProc].progress = jobRead[FirstProc].progress
         /\ processed[FirstProc] = 0
         /\ docs[FirstProc] = <<>>
         /\ Len(events) > 1
         /\ events[Len(events) - 1].message = "job_started"
         /\ LastEvent.message = "gemini_store_ready"

\* three such invocations in a row left a queued job running at progress 0
C29_Witness ==
    /\ IdleRunReturned
    /\ calls = 3
    /\ batch_size[FirstProc] = 0
    /\ time_budget_s[FirstProc] = Ample
    /\ Len(events) = 6
    /\ ret[FirstProc].status = "running"
    /\ ret[FirstProc].progress = 0

\* the number of indexed_ok events of document d
OkCount(d) == Cardinality({i \in EventsOf("indexed_ok") : events[i].doc = d})

\* C30: when an invocation returns succeeded, the stored progress equals
\* the total and each of the first total documents of the order has exactly
\* one indexed_ok event, no other document having any
C30_SucceededMeansAllIndexed ==
    (Returned(FirstProc) /\ ret[FirstProc].status = "succeeded")
      => /\ ret[FirstProc].progress = ret[FirstProc].total
         /\ job.progress = job.total
         /\ \A d \in Members :
               OkCount(d) = IF Position(d) < job.total THEN 1 ELSE 0
         /\ Cardinality(EventsOf("indexed_ok")) = job.total

\* a job of more than 3 documents succeeded over several runs
C30_Witness ==
    /\ Returned(FirstProc)
    /\ ret[FirstProc].status = "succeeded"
    /\ calls > 1
    /\ jobRead[FirstProc].progress > 0
    /\ job.total > 3

\* C24: a status update writes status and updated_at of the row of its job
\* id, error only when one is supplied, progress only when one is supplied;
\* total, file_store_id and every other row stay as they were; marking a job
\* failed without a progress leaves the stored progress
C24_OnlySuppliedFields ==
    [][jobsTable'.clock # jobsTable.clock
         => LET u == jobsTable'.update
                old == jobsTable.rows
                new == jobsTable'.rows
            IN  /\ \A k \in JobIds : k # u.job_id => new[k] = old[k]
                /\ u.job_id \in JobIds
                     => /\ new[u.job_id].status = u.status
                        /\ new[u.job_id].updated_at = jobsTable'.clock
                        /\ new[u.job_id].updated_at > old[u.job_id].updated_at
                        /\ new[u.job_id].error
                             = IF u.error = None THEN old[u.job_id].error ELSE u.error
                        /\ new[u.job_id].progress
                             = IF u.progress = NoProgress THEN old[u.job_id].progress
                               ELSE u.progress
                        /\ new[u.job_id].total = old[u.job_id].total
                        /\ new[u.job_id].file_store_id = old[u.job_id].file_store_id]_vars

\* a job with progress 1 was marked failed with an error and no progress
C24_Witness ==
    /\ jobsTable.update.job_id = ThisJob
    /\ jobsTable.update.status = "failed"
    /\ jobsTable.update.error = "boom"
    /\ jobsTable.update.progress = NoProgress
    /\ jobsTable.rows[ThisJob].progress = 1
    /\ jobsTable.rows[ThisJob].error = "boom"
    /\ jobsTable.clock > 1

\* the smallest number of poll_every_s sleeps that cover max_wait_s
MaxRequests == (op.max_wait_s + op.poll_every_s - 1) \div op.poll_every_s

\* poll_operation has received an answer whose status code is not 2xx
Non2xx == op.resp # NoResponse /\ (op.resp.code < 200 \/ op.resp.code >= 300)

C26_NoLeftover ==
    prompt.done => \A i \in 1 .. Len(prompt.out) : ~prompt.out[i].ph
====
